---- MODULE Spec2Model ----
(***************************************************************************)
(* Model of SurveyData/VRGroup/Script.py: the survey coder.  A run locates *)
(* the single raw CSV in the script folder, loads it, picks the VR or the  *)
(* Video configuration from the file name, scores every row against the    *)
(* answer key and saves coded_results.csv in the same folder.              *)
(*                                                                         *)
(* Strings are TLA+ strings; a table cell is a record tagged with the type *)
(* pandas gives the value (float NaN, str, int).                           *)
(***************************************************************************)
EXTENDS FiniteSets, Integers, Sequences, TLC

\* ------------------------------------------------------------------------
\* Bounds of the model
\* ------------------------------------------------------------------------
\* most rows in a table built from the plain row palette
MaxRows == 2
\* most invocations of the script on the same folder
MaxRuns == 2

\* ------------------------------------------------------------------------
\* String functions of the Python library, as the script uses them
\* ------------------------------------------------------------------------
\* str.startswith
StartsWith(s, p) == Len(s) >= Len(p) /\ SubSeq(s, 1, Len(p)) = p

\* str.endswith (the tail test of the glob pattern)
EndsWith(s, p) == Len(s) >= Len(p) /\ SubSeq(s, Len(s) - Len(p) + 1, Len(s)) = p

\* the `in` operator on two strings
Contains(s, sub) == \E i \in 1..(Len(s) - Len(sub) + 1) : SubSeq(s, i, i + Len(sub) - 1) = sub

\* characters str.strip() removes
IsSpace(ch) == ch \in {" ", "\t", "\n", "\r"}

RECURSIVE LStrip(_)
LStrip(s) == IF Len(s) > 0 /\ IsSpace(SubSeq(s, 1, 1))
             THEN LStrip(SubSeq(s, 2, Len(s)))
             ELSE s

RECURSIVE RStrip(_)
RStrip(s) == IF Len(s) > 0 /\ IsSpace(SubSeq(s, Len(s), Len(s)))
             THEN RStrip(SubSeq(s, 1, Len(s) - 1))
             ELSE s

\* str.strip()
Strip(s) == RStrip(LStrip(s))

\* os.path.join(dir, name)
PathJoin(d, n) == d \o "/" \o n

\* os.path.basename: what follows the last "/"
RECURSIVE BaseName(_)
BaseName(p) == IF \E i \in 1..Len(p) : SubSeq(p, i, i) = "/"
               THEN BaseName(SubSeq(p, (CHOOSE i \in 1..Len(p) : SubSeq(p, i, i) = "/") + 1, Len(p)))
               ELSE p

\* ------------------------------------------------------------------------
\* Cell values
\* ------------------------------------------------------------------------
\* float NaN: what read_csv gives for an empty cell, and DataFrame for a
\* field a record lacks
NaN == [kind |-> "nan"]
StrCell(s) == [kind |-> "str", s |-> s]
IntCell(n) == [kind |-> "int", n |-> n]

RECURSIVE Digits(_)
Digits(n) == IF n < 10 THEN SubSeq("0123456789", n + 1, n + 1)
             ELSE Digits(n \div 10) \o SubSeq("0123456789", (n % 10) + 1, (n % 10) + 1)

\* str(value)
StrOf(c) == CASE c.kind = "nan" -> "nan"
              [] c.kind = "str" -> c.s
              [] c.kind = "int" -> IF c.n < 0 THEN "-" \o Digits(0 - c.n) ELSE Digits(c.n)

\* ------------------------------------------------------------------------
\* The hardcoded configuration
\* ------------------------------------------------------------------------
BG_COLS == [Q1 |-> "cs_background", Q2 |-> "nn_course", Q3_1 |-> "derivative_familiarity"]

VR_PRE_COLS == <<"Q16","Q17","Q18","Q19","Q20","Q21","Q22","Q23","Q24","Q25","Q26","Q27">>
VR_POST_COLS == <<"Q87","Q88","Q89","Q90","Q91","Q92","Q93","Q94","Q95","Q96","Q97","Q98">>

VIDEO_PRE_COLS == <<"Q48","Q49","Q50","Q51","Q52","Q53","Q54","Q55","Q56","Q57","Q52.1","Q55.1">>
VIDEO_POST_COLS_Typo == <<"Q71","Q72","Q73","Q74","Q75","Q76","Q77","Q78","Q79","Q80","Q81","Q82">>
VIDEO_POST_COLS == <<"Q71","Q72","Q73","Q74","Q75","Q76","Q77","Q78","Q79","Q80","Q81","Q84">>

\* dict literal of the VR branch
VR_ANSWER_KEY ==
    ("Q16" :> "One entire pass over all training samples") @@
    ("Q17" :> "6 4 3 1 5 2") @@
    ("Q18" :> "A function measuring prediction error") @@
    ("Q19" :> "Inputs are weighted and summed through the network") @@
    ("Q20" :> "Inputs are weighted and summed through the network") @@
    ("Q21" :> "Combining the outputs of previous neurons to generate the result of the network.") @@
    ("Q22" :> "Determine the influence strength of an input on the neuron's output") @@
    ("Q23" :> "Computes how errors change with respect to weights and biases") @@
    ("Q24" :> "It provides feedback on how far predictions are from actual targets") @@
    ("Q25" :> "2,3") @@
    ("Q26" :> "To enable the activation function to shift left or right") @@
    ("Q27" :> "Bias is learned during training like weights") @@
    ("Q87" :> "One entire pass over all training samples") @@
    ("Q88" :> "6 4 3 1 5 2") @@
    ("Q89" :> "A function measuring prediction error") @@
    ("Q90" :> "Inputs are weighted and summed through the network") @@
    ("Q91" :> "Inputs are weighted and summed through the network") @@
    ("Q92" :> "Combining the outputs of previous neurons to generate the result of the network.") @@
    ("Q93" :> "Determine the influence strength of an input on the neuron's output") @@
    ("Q94" :> "Computes how errors change with respect to weights and biases") @@
    ("Q95" :> "It provides feedback on how far predictions are from actual targets") @@
    ("Q96" :> "2,3") @@
    ("Q97" :> "To enable the activation function to shift left or right") @@
    ("Q98" :> "Bias is learned during training like weights")

\* dict literal of the Video branch
VIDEO_ANSWER_KEY ==
    ("Q48" :> "One entire pass over all training samples") @@
    ("Q49" :> "6 4 3 1 5 2") @@
    ("Q50" :> "A function measuring prediction error") @@
    ("Q51" :> "Inputs are weighted and summed through the network") @@
    ("Q52" :> "Inputs are weighted and summed through the network") @@
    ("Q53" :> "Combining the outputs of previous neurons to generate the result of the network.") @@
    ("Q54" :> "Determine the influence strength of an input on the neuron's output") @@
    ("Q55" :> "Computes how errors change with respect to weights and biases") @@
    ("Q56" :> "It provides feedback on how far predictions are from actual targets") @@
    ("Q57" :> "2,3") @@
    ("Q52.1" :> "To enable the activation function to shift left or right") @@
    ("Q55.1" :> "Bias is learned during training like weights") @@
    ("Q71" :> "One entire pass over all training samples") @@
    ("Q72" :> "6 4 3 1 5 2") @@
    ("Q73" :> "A function measuring prediction error") @@
    ("Q74" :> "Inputs are weighted and summed through the network") @@
    ("Q75" :> "Inputs are weighted and summed through the network") @@
    ("Q76" :> "Combining the outputs of previous neurons to generate the result of the network.") @@
    ("Q77" :> "Determine the influence strength of an input on the neuron's output") @@
    ("Q78" :> "Computes how errors change with respect to weights and biases") @@
    ("Q79" :> "It provides feedback on how far predictions are from actual targets") @@
    ("Q80" :> "2,3") @@
    ("Q81" :> "To enable the activation function to shift left or right") @@
    ("Q84" :> "Bias is learned during training like weights")

\* ------------------------------------------------------------------------
\* The script folder and the files the operator may have put there
\* ------------------------------------------------------------------------
\* os.path.dirname(os.path.abspath(__file__))
script_dir == "/SurveyData/VRGroup"

\* base names a folder is drawn from: two raw exports, an earlier output,
\* a dot file and a file of another extension
Names == {"VR_pilot.csv", "Video_pilot.csv", "coded_results.csv", ".VR_draft.csv", "VR_notes.txt"}

\* the correct option of each of the twelve questions, as the survey words it
CorrectOption == << "One entire pass over all training samples",
                    "6 4 3 1 5 2",
                    "A function measuring prediction error",
                    "Inputs are weighted and summed through the network",
                    "Inputs are weighted and summed through the network",
                    "Combining the outputs of previous neurons to generate the result of the network.",
                    "Determine the influence strength of an input on the neuron's output",
                    "Computes how errors change with respect to weights and biases",
                    "It provides feedback on how far predictions are from actual targets",
                    "2,3",
                    "To enable the activation function to shift left or right",
                    "Bias is learned during training like weights" >>

Range(q) == {q[i] : i \in 1..Len(q)}

QuestionLists == {VR_PRE_COLS, VR_POST_COLS, VIDEO_PRE_COLS, VIDEO_POST_COLS}

\* the correct option text of the question exported under column c
OptionOf(c) == LET q == CHOOSE l \in QuestionLists : c \in Range(l)
               IN  CorrectOption[CHOOSE i \in 1..Len(q) : q[i] = c]

\* columns of the export of each condition's survey
VRExport == Range(VR_PRE_COLS) \cup Range(VR_POST_COLS) \cup {"Q1", "Q2", "Q3_1", "ResponseId"}
VideoExport == Range(VIDEO_PRE_COLS) \cup Range(VIDEO_POST_COLS) \cup {"Q1", "Q2", "Q3_1", "ResponseId"}

\* column sets of the tables tried: the full exports, exports with a few
\* columns deleted, and an export holding only the pre-test
ColChoices == { VRExport, VideoExport,
                VRExport \ {"Q17", "Q88", "Q2"},
                VideoExport \ {"Q49", "Q72", "Q3_1"},
                VideoExport \ Range(VIDEO_POST_COLS) }

\* what a cell may hold
Kinds == {"empty", "spaces", "nan_text", "NaN_text", "key", "padded", "near", "wrong", "int"}

KindCell(k, c) == CASE k = "empty"    -> NaN
                    [] k = "spaces"   -> StrCell("  ")
                    [] k = "nan_text" -> StrCell(" nan")
                    [] k = "NaN_text" -> StrCell("NaN\t")
                    [] k = "key"      -> StrCell(OptionOf(c))
                    [] k = "padded"   -> StrCell(" " \o OptionOf(c) \o "\t\n")
                    [] k = "near"     -> StrCell(OptionOf(c) \o ".")
                    [] k = "wrong"    -> StrCell("I don't know")
                    [] k = "int"      -> IntCell(6)

\* the first pre-test and the last post-test question of either survey take
\* any kind of value; the other questions of a phase share one
ProbePre == {VR_PRE_COLS[1], VIDEO_PRE_COLS[1]}
ProbePost == {VR_POST_COLS[Len(VR_POST_COLS)], VIDEO_POST_COLS[Len(VIDEO_POST_COLS)]}

RowSpec(pre, post, p1, p2) == [pre |-> pre, post |-> post, p1 |-> p1, p2 |-> p2]

RowOf(cols, s) ==
    [c \in cols |->
        CASE c \in ProbePre  -> KindCell(s.p1, c)
          [] c \in ProbePost -> KindCell(s.p2, c)
          [] c \in Range(VR_PRE_COLS) \cup Range(VIDEO_PRE_COLS)   -> KindCell(s.pre, c)
          [] c \in Range(VR_POST_COLS) \cup Range(VIDEO_POST_COLS) -> KindCell(s.post, c)
          [] c = "Q3_1" -> IntCell(4)
          [] c \in {"Q1", "Q2"} -> StrCell("Yes")
          [] OTHER -> StrCell("R_1")]

CsvTable(cols, rows) == [kind |-> "csv", cols |-> cols, rows |-> rows]

\* one-row tables over every pair of probe values
RichSpecs == {RowSpec(f, g, a, b) : f \in {"key", "empty"}, g \in {"key", "empty"}, a \in Kinds, b \in Kinds}
RichTables == {CsvTable(cs, << RowOf(cs, s) >>) : cs \in ColChoices, s \in RichSpecs}

\* tables of 0..MaxRows rows over a few row shapes
PlainSpecs == { RowSpec("key", "empty", "key", "empty"),
                RowSpec("key", "key", "wrong", "key"),
                RowSpec("empty", "key", "spaces", "padded") }
PlainTables == {CsvTable(cs, [i \in 1..n |-> RowOf(cs, ss[i])]) :
                   cs \in ColChoices, n \in 0..MaxRows, ss \in [1..MaxRows -> PlainSpecs]}

\* a file pandas cannot parse
Garbage == [kind |-> "garbage"]

\* what coded_results.csv holds when an earlier output is in the folder
OldOutput == CsvTable({"id", "group"}, << [c \in {"id", "group"} |-> IF c = "id" THEN IntCell(41) ELSE StrCell("VR")] >>)

\* the folder holding the files of D, every visible survey export with
\* content t
FolderOf(D, t) == [n \in D |-> IF n = "coded_results.csv" THEN OldOutput
                               ELSE IF n = ".VR_draft.csv" THEN CsvTable({"ResponseId"}, << >>)
                               ELSE IF EndsWith(n, ".csv") THEN t
                               ELSE Garbage]

\* folders tried: any set of the names around a plain table or an
\* unparseable file, and one export, alone or beside an earlier output,
\* holding any of the one-row tables
Folders == {FolderOf(D, t) : D \in SUBSET Names, t \in PlainTables \cup {Garbage}}
           \cup {FolderOf({n} \cup D, t) : n \in {"VR_pilot.csv", "Video_pilot.csv"},
                                           D \in SUBSET {"coded_results.csv"},
                                           t \in RichTables}

\* ------------------------------------------------------------------------
\* State
\* ------------------------------------------------------------------------
VARIABLES
    files,       \* the script folder: base name -> content
    pc,          \* where the run is: "locate", "load", "detect", "score", "done", "aborted"
    error,       \* the exception that ended the run, or "none"
    csv_files,   \* paths found by the glob
    csv_path,
    df,          \* the loaded table
    file_name,
    group,
    PRE_COLS,
    POST_COLS,
    ANSWER_KEY,
    idx,         \* index of the next row of df.iterrows()
    records,
    run,         \* number of this invocation
    prev         \* how the invocation before this one ended

vars == << files, pc, error, csv_files, csv_path, df, file_name, group,
           PRE_COLS, POST_COLS, ANSWER_KEY, idx, records, run, prev >>

NoTable == [kind |-> "none"]
NoDict == [c \in {} |-> ""]

\* module globals of a process that has just started
Fresh == /\ pc = "locate"
         /\ error = "none"
         /\ csv_files = {}
         /\ csv_path = ""
         /\ df = NoTable
         /\ file_name = ""
         /\ group = ""
         /\ PRE_COLS = << >>
         /\ POST_COLS = << >>
         /\ ANSWER_KEY = NoDict
         /\ idx = 0
         /\ records = << >>

Init == /\ files \in Folders
        /\ Fresh
        /\ run = 1
        /\ prev = [pc |-> "none", group |-> "", out |-> NoTable]

\* ------------------------------------------------------------------------
\* Locating the input
\* ------------------------------------------------------------------------
\* fnmatch of a base name against "*.csv"; glob does not let "*" match a
\* leading dot
MatchesCsv(n) == EndsWith(n, ".csv") /\ ~StartsWith(n, ".")

\* glob.glob(os.path.join(script_dir, "*.csv"))
Glob(fs) == {PathJoin(script_dir, n) : n \in {m \in DOMAIN fs : MatchesCsv(m)}}

\* the list comprehension: CSV files that are not coded outputs
CsvFilesAll(fs) == Glob(fs)
CsvFiles(fs) == {f \in Glob(fs) : ~StartsWith(BaseName(f), "coded_")}

Abort(e) == /\ pc' = "aborted"
            /\ error' = e

LocateNone == /\ pc = "locate"
              /\ CsvFiles(files) = {}
              /\ csv_files' = CsvFiles(files)
              /\ Abort("FileNotFoundError")
              /\ UNCHANGED << files, csv_path, df, file_name, group, PRE_COLS, POST_COLS,
                              ANSWER_KEY, idx, records, run, prev >>

LocateMany == /\ pc = "locate"
              /\ Cardinality(CsvFiles(files)) > 1
              /\ csv_files' = CsvFiles(files)
              /\ Abort("RuntimeError")
              /\ UNCHANGED << files, csv_path, df, file_name, group, PRE_COLS, POST_COLS,
                              ANSWER_KEY, idx, records, run, prev >>

LocateOne == /\ pc = "locate"
             /\ Cardinality(CsvFiles(files)) = 1
             /\ csv_files' = CsvFiles(files)
             /\ \E p \in CsvFiles(files) : csv_path' = p
             /\ pc' = "load"
             /\ UNCHANGED << files, error, df, file_name, group, PRE_COLS, POST_COLS,
                             ANSWER_KEY, idx, records, run, prev >>

\* ------------------------------------------------------------------------
\* Loading the table
\* ------------------------------------------------------------------------
LoadOk == /\ pc = "load"
          /\ files[BaseName(csv_path)].kind = "csv"
          /\ df' = files[BaseName(csv_path)]
          /\ pc' = "detect"
          /\ UNCHANGED << files, error, csv_files, csv_path, file_name, group, PRE_COLS,
                          POST_COLS, ANSWER_KEY, idx, records, run, prev >>

\* pd.read_csv raises on a file it cannot parse
LoadFail == /\ pc = "load"
            /\ files[BaseName(csv_path)].kind # "csv"
            /\ Abort("ParserError")
            /\ UNCHANGED << files, csv_files, csv_path, df, file_name, group, PRE_COLS,
                            POST_COLS, ANSWER_KEY, idx, records, run, prev >>

\* ------------------------------------------------------------------------
\* Detecting the group
\* ------------------------------------------------------------------------
FileNameOfPath(p) == p
FileNameOf(p) == BaseName(p)

GroupConfigVRLists(fname) ==
    IF Contains(fname, "VR")
    THEN [group |-> "VR", pre |-> VR_PRE_COLS, post |-> VR_POST_COLS, key |-> VR_ANSWER_KEY]
    ELSE [group |-> "Video", pre |-> VR_PRE_COLS, post |-> VR_POST_COLS, key |-> VR_ANSWER_KEY]

\* the if / else on the file name
GroupConfig(fname) ==
    IF Contains(fname, "VR")
    THEN [group |-> "VR", pre |-> VR_PRE_COLS, post |-> VR_POST_COLS, key |-> VR_ANSWER_KEY]
    ELSE [group |-> "Video", pre |-> VIDEO_PRE_COLS, post |-> VIDEO_POST_COLS, key |-> VIDEO_ANSWER_KEY]

Detect == /\ pc = "detect"
          /\ file_name' = FileNameOf(csv_path)
          /\ group' = GroupConfig(FileNameOf(csv_path)).group
          /\ PRE_COLS' = GroupConfig(FileNameOf(csv_path)).pre
          /\ POST_COLS' = GroupConfig(FileNameOf(csv_path)).post
          /\ ANSWER_KEY' = GroupConfig(FileNameOf(csv_path)).key
          /\ records' = << >>
          /\ idx' = 0
          /\ pc' = "score"
          /\ UNCHANGED << files, error, csv_files, csv_path, df, run, prev >>

\* ------------------------------------------------------------------------
\* Scoring one row
\* ------------------------------------------------------------------------
\* rec[k] = v on a dict
Put(rec, k, v) == [x \in DOMAIN rec \cup {k} |-> IF x = k THEN v ELSE rec[x]]

\* str(row[col]).strip()
Answer(row, col) == Strip(StrOf(row[col]))

\* answer in ["nan", "NaN", ""]
IsMissingNoNaN(answer) == answer \in {"nan", ""}
IsMissing(answer) == answer \in {"nan", "NaN", ""}

\* int(answer == ANSWER_KEY[col])
FlagPrefix(answer, expected) == IF StartsWith(answer, expected) THEN 1 ELSE 0
FlagNegative(answer, expected) == IF answer = expected THEN 1 ELSE 0 - 1
Flag(answer, expected) == IF answer = expected THEN 1 ELSE 0

\* the copy of the background columns the table has
RECURSIVE Background(_, _, _, _)
Background(todo, row, tcols, rec) ==
    IF todo = {} THEN rec
    ELSE LET col == CHOOSE c \in todo : TRUE
         IN  Background(todo \ {col}, row, tcols,
                        IF col \in tcols THEN Put(rec, BG_COLS[col], row[col]) ELSE rec)

\* one of the two scoring loops, from column i of cols on; acc holds the
\* record, the running score, and whether the key lookup raised KeyError
RECURSIVE ScoreLoop(_, _, _, _, _, _)
ScoreLoop(cols, i, row, tcols, key, acc) ==
    IF i > Len(cols) \/ acc.raised THEN acc
    ELSE LET col == cols[i] IN
         IF col \notin tcols THEN ScoreLoop(cols, i + 1, row, tcols, key, acc)
         ELSE IF IsMissing(Answer(row, col)) THEN ScoreLoop(cols, i + 1, row, tcols, key, acc)
         ELSE IF col \notin DOMAIN key THEN [acc EXCEPT !.raised = TRUE]
         ELSE ScoreLoop(cols, i + 1, row, tcols, key,
                        [rec    |-> Put(acc.rec, col, IntCell(Flag(Answer(row, col), key[col]))),
                         score  |-> acc.score + Flag(Answer(row, col), key[col]),
                         raised |-> FALSE])

\* rec["post_score"] - rec["pre_score"]
GainSwapped(rec) == rec["pre_score"].n - rec["post_score"].n
Gain(rec) == rec["post_score"].n - rec["pre_score"].n

\* the body of the loop over df.iterrows() for row i (0-based) of the table
ScoreRow(i, row, tcols) ==
    LET rec0 == ("id" :> IntCell(i)) @@ ("group" :> StrCell(group))
        rec1 == Background(DOMAIN BG_COLS, row, tcols, rec0)
        pre  == ScoreLoop(PRE_COLS, 1, row, tcols, ANSWER_KEY,
                          [rec |-> rec1, score |-> 0, raised |-> FALSE])
        rec2 == Put(pre.rec, "pre_score", IntCell(pre.score))
        post == ScoreLoop(POST_COLS, 1, row, tcols, ANSWER_KEY,
                          [rec |-> rec2, score |-> 0, raised |-> FALSE])
        rec3 == Put(post.rec, "post_score", IntCell(post.score))
    IN  IF pre.raised \/ post.raised
        THEN [raised |-> TRUE, rec |-> rec0]
        ELSE [raised |-> FALSE, rec |-> Put(rec3, "gain", IntCell(Gain(rec3)))]

Iterate == /\ pc = "score"
           /\ idx < Len(df.rows)
           /\ LET r == ScoreRow(idx, df.rows[idx + 1], df.cols)
              IN  IF r.raised
                  THEN /\ Abort("KeyError")
                       /\ UNCHANGED << idx, records >>
                  ELSE /\ records' = Append(records, r.rec)
                       /\ idx' = idx + 1
                       /\ UNCHANGED << pc, error >>
           /\ UNCHANGED << files, csv_files, csv_path, df, file_name, group, PRE_COLS,
                           POST_COLS, ANSWER_KEY, run, prev >>

\* ------------------------------------------------------------------------
\* Saving the output
\* ------------------------------------------------------------------------
\* pd.DataFrame(records): the columns are the union of the records' keys,
\* and a record lacking a key has NaN there
DataFrame(recs) ==
    LET cols == UNION {DOMAIN recs[i] : i \in 1..Len(recs)}
    IN  CsvTable(cols, [i \in 1..Len(recs) |->
                          [c \in cols |-> IF c \in DOMAIN recs[i] THEN recs[i][c] ELSE NaN]])

out_path_uncoded == PathJoin(script_dir, "results.csv")
out_path == PathJoin(script_dir, "coded_results.csv")

\* the statements after the loop run once the iteration is exhausted
AfterLoopInBody == idx = Len(df.rows) \/ idx >= 1
AfterLoop == idx = Len(df.rows)

\* coded_df.to_csv(out_path, index=False) creates or overwrites the file
Save == /\ pc = "score"
        /\ AfterLoop
        /\ files' = [n \in DOMAIN files \cup {BaseName(out_path)} |->
                        IF n = BaseName(out_path) THEN DataFrame(records) ELSE files[n]]
        /\ pc' = "done"
        /\ UNCHANGED << error, csv_files, csv_path, df, file_name, group, PRE_COLS,
                        POST_COLS, ANSWER_KEY, idx, records, run, prev >>

\* ------------------------------------------------------------------------
\* The operator runs the script again on the folder as it now is
\* ------------------------------------------------------------------------
Rerun == /\ pc \in {"done", "aborted"}
         /\ run < MaxRuns
         /\ run' = run + 1
         /\ prev' = [pc    |-> pc,
                     group |-> group,
                     out   |-> IF BaseName(out_path) \in DOMAIN files
                               THEN files[BaseName(out_path)] ELSE NoTable]
         /\ pc' = "locate"
         /\ error' = "none"
         /\ csv_files' = {}
         /\ csv_path' = ""
         /\ df' = NoTable
         /\ file_name' = ""
         /\ group' = ""
         /\ PRE_COLS' = << >>
         /\ POST_COLS' = << >>
         /\ ANSWER_KEY' = NoDict
         /\ idx' = 0
         /\ records' = << >>
         /\ UNCHANGED files

Next == \/ LocateNone
        \/ LocateMany
        \/ LocateOne
        \/ LoadOk
        \/ LoadFail
        \/ Detect
        \/ Iterate
        \/ Save
        \/ Rerun

Spec == Init /\ [][Next]_vars

\* ------------------------------------------------------------------------
\* Properties
\* ------------------------------------------------------------------------
\* the input candidates: files matching *.csv whose name does not start
\* with "coded_"
Candidates == {n \in DOMAIN files : MatchesCsv(n) /\ ~StartsWith(n, "coded_")}

\* the run has a table and a configuration: records are those of df
Scoring == pc \in {"score", "done"}

\* the columns of both phases of the selected configuration
ScoredCols == Range(PRE_COLS) \cup Range(POST_COLS)

\* column col of row i of the table holds no answer
Unanswered(i, col) == \/ col \notin df.cols
                      \/ Strip(StrOf(df.rows[i][col])) \in {"", "nan", "NaN"}

\* the flags a record holds for the columns of a phase
FlagsOf(rec, cols) == {c \in Range(cols) : c \in DOMAIN rec}

RECURSIVE SumFlags(_, _)
SumFlags(rec, S) == IF S = {} THEN 0
                    ELSE LET c == CHOOSE x \in S : TRUE
                         IN  rec[c].n + SumFlags(rec, S \ {c})

LocateErrors == {"FileNotFoundError", "RuntimeError"}

C1_Located ==
    /\ pc # "locate" =>
          /\ Candidates = {} => pc = "aborted" /\ error = "FileNotFoundError"
          /\ Cardinality(Candidates) > 1 => pc = "aborted" /\ error = "RuntimeError"
          /\ (pc \in {"load", "detect", "score", "done"} \/ df # NoTable)
                => Cardinality(Candidates) = 1
    /\ error \in LocateErrors =>
          /\ Cardinality(Candidates) # 1
          /\ records = << >>
          /\ df = NoTable
\* C1: input discovery.  Once the folder has been scanned: no candidate
\* means the run has aborted with the not-found error, more than one means
\* it has aborted with the ambiguous-input error, and the run goes on to
\* load a table only with exactly one candidate; in both failures no row
\* has been scored and no file of the folder is written or changed.
C1_InputDiscovery ==
    [] C1_Located /\ [][error' \in LocateErrors => files' = files]_vars
\* an ambiguous folder that holds an earlier output, left as it was
C1_Witness == /\ error = "RuntimeError"
              /\ "coded_results.csv" \in DOMAIN files
              /\ files["coded_results.csv"] = OldOutput

\* C2: the group is a function of the base name of the input alone: "VR" in
\* the name gives group VR with the VR lists and key, any other name gives
\* Video with the Video lists and key; every record carries that group,
\* one of the two labels, and flags only for columns of that configuration.
C2_GroupFromName ==
    Scoring =>
        \A n \in Candidates :
            LET vr == \E i \in 1..(Len(n) - 1) : SubSeq(n, i, i + 1) = "VR" IN
            /\ group = (IF vr THEN "VR" ELSE "Video")
            /\ PRE_COLS = (IF vr THEN VR_PRE_COLS ELSE VIDEO_PRE_COLS)
            /\ POST_COLS = (IF vr THEN VR_POST_COLS ELSE VIDEO_POST_COLS)
            /\ ANSWER_KEY = (IF vr THEN VR_ANSWER_KEY ELSE VIDEO_ANSWER_KEY)
            /\ \A i \in 1..Len(records) :
                  /\ records[i]["group"] = StrCell(IF vr THEN "VR" ELSE "Video")
                  /\ \A c \in DOMAIN records[i] :
                        c \in DOMAIN VR_ANSWER_KEY \cup DOMAIN VIDEO_ANSWER_KEY
                           => c \in (IF vr THEN DOMAIN VR_ANSWER_KEY ELSE DOMAIN VIDEO_ANSWER_KEY)
\* a file named for VR holding the Video survey's columns is scored as VR
C2_Witness == /\ Scoring
              /\ group = "VR"
              /\ Len(records) >= 1
              /\ df.cols = VideoExport

\* C3: a scored column that is absent from the table, or whose cell, as a
\* stripped string, is "", "nan" or "NaN", gives the record no field, and
\* each score counts only the answered columns that match the key.
C3_MissingIsNeutral ==
    Scoring =>
        \A i \in 1..Len(records) :
            /\ \A col \in ScoredCols : Unanswered(i, col) => col \notin DOMAIN records[i]
            /\ records[i]["pre_score"].n =
                  Cardinality({c \in Range(PRE_COLS) : ~Unanswered(i, c)
                                  /\ Strip(StrOf(df.rows[i][c])) = ANSWER_KEY[c]})
            /\ records[i]["post_score"].n =
                  Cardinality({c \in Range(POST_COLS) : ~Unanswered(i, c)
                                  /\ Strip(StrOf(df.rows[i][c])) = ANSWER_KEY[c]})
\* a record lacking a column the table lacks, one whose cell is "NaN" with
\* trailing white space, and one whose cell is empty
C3_Witness ==
    /\ Scoring
    /\ \E i \in 1..Len(records) :
          /\ \E c \in Range(PRE_COLS) : c \in df.cols /\ df.rows[i][c] = StrCell("NaN\t")
                                        /\ c \notin DOMAIN records[i]
          /\ \E c \in Range(PRE_COLS) : c \notin df.cols /\ c \notin DOMAIN records[i]
          /\ \E c \in Range(POST_COLS) : c \in df.cols /\ df.rows[i][c] = NaN
                                         /\ c \notin DOMAIN records[i]

\* C4: every answered scored column has a flag in the record, 1 when the
\* stripped answer equals the key's string and 0 otherwise, and each score
\* is the sum of that phase's flags, the number of them equal to 1.
C4_FlagsAndScores ==
    Scoring =>
        \A i \in 1..Len(records) :
            LET rec == records[i] IN
            /\ \A col \in ScoredCols :
                  ~Unanswered(i, col) =>
                      /\ col \in DOMAIN rec
                      /\ rec[col] = IntCell(IF Strip(StrOf(df.rows[i][col])) = ANSWER_KEY[col]
                                            THEN 1 ELSE 0)
            /\ rec["pre_score"].n = SumFlags(rec, FlagsOf(rec, PRE_COLS))
            /\ rec["pre_score"].n = Cardinality({c \in FlagsOf(rec, PRE_COLS) : rec[c] = IntCell(1)})
            /\ rec["post_score"].n = SumFlags(rec, FlagsOf(rec, POST_COLS))
            /\ rec["post_score"].n = Cardinality({c \in FlagsOf(rec, POST_COLS) : rec[c] = IntCell(1)})
\* a record with a flag of 1 for a padded correct answer and a flag of 0
\* for the correct answer followed by a full stop
C4_Witness ==
    /\ Scoring
    /\ \E i \in 1..Len(records) :
          /\ \E c \in Range(PRE_COLS) :
                /\ c \in df.cols /\ c \in DOMAIN records[i]
                /\ df.rows[i][c] = StrCell(" " \o ANSWER_KEY[c] \o "\t\n")
                /\ records[i][c] = IntCell(1)
          /\ \E c \in Range(POST_COLS) :
                /\ c \in df.cols /\ c \in DOMAIN records[i]
                /\ df.rows[i][c] = StrCell(ANSWER_KEY[c] \o ".")
                /\ records[i][c] = IntCell(0)

\* C5: each score is an integer from 0 to the number of that phase's
\* columns the table has, so at most 12, and 0 when it has none of them.
C5_ScoreBounds ==
    Scoring =>
        \A i \in 1..Len(records) :
            /\ records[i]["pre_score"].n \in 0..Cardinality(Range(PRE_COLS) \cap df.cols)
            /\ records[i]["post_score"].n \in 0..Cardinality(Range(POST_COLS) \cap df.cols)
            /\ records[i]["pre_score"].n <= 12
            /\ records[i]["post_score"].n <= 12
            /\ Range(PRE_COLS) \cap df.cols = {} => records[i]["pre_score"] = IntCell(0)
            /\ Range(POST_COLS) \cap df.cols = {} => records[i]["post_score"] = IntCell(0)
\* a table with every pre-test column and no post-test column, all correct
C5_Witness ==
    /\ Scoring
    /\ Range(POST_COLS) \cap df.cols = {}
    /\ \E i \in 1..Len(records) :
          /\ records[i]["post_score"] = IntCell(0)
          /\ records[i]["pre_score"].n = Cardinality(Range(PRE_COLS) \cap df.cols)
          /\ records[i]["pre_score"].n = 12

\* C6: every record's gain is its own post_score minus its own pre_score,
\* between -12 and 12.
C6_Gain ==
    \A i \in 1..Len(records) :
        /\ records[i]["gain"].n = records[i]["post_score"].n - records[i]["pre_score"].n
        /\ records[i]["gain"].n \in (0 - 12)..12
\* a record that lost points and one that gained some
C6_Witness == /\ \E i \in 1..Len(records) : records[i]["gain"].n < 0
              /\ \E i \in 1..Len(records) : records[i]["gain"].n > 0

C7_AfterSuccess ==
    (run > 1 /\ prev.pc = "done") =>
        /\ error = "none"
        /\ pc # "aborted"
        /\ pc # "locate" => Cardinality(csv_files) = 1
        /\ Scoring => group = prev.group
        /\ pc = "done" => files["coded_results.csv"] = prev.out
C7_WritesOnlyOutput ==
    (pc' = "done" /\ pc # "done") =>
        /\ DOMAIN files' = DOMAIN files \cup {"coded_results.csv"}
        /\ \A n \in DOMAIN files : n # "coded_results.csv" => files'[n] = files[n]
\* C7: a successful run changes or creates no file but coded_results.csv,
\* and the run that follows it on the same folder finds one candidate
\* again, does not fail, selects the same group and leaves in
\* coded_results.csv exactly what the run before it left.
C7_RerunIdempotent == [] C7_AfterSuccess /\ [][C7_WritesOnlyOutput]_vars
\* a second run has ended after a first one that wrote records
C7_Witness == /\ run = 2
              /\ prev.pc = "done"
              /\ pc = "done"
              /\ Len(prev.out.rows) >= 1
              /\ files["coded_results.csv"] = prev.out

\* a blank cell: empty, or white space only
Blank(cell) == cell = NaN \/ (cell.kind = "str" /\ Strip(cell.s) = "")

\* every column of the list is in the table and row i answers it with
\* exactly the key's string
AllCorrect(i, cols) ==
    \A c \in Range(cols) : c \in df.cols /\ c \in DOMAIN ANSWER_KEY
                           /\ df.rows[i][c] = StrCell(ANSWER_KEY[c])

\* C8: under the Video configuration a row with all 12 pre-test columns
\* answered exactly as the Video key says and every post-test cell blank
\* gives pre_score 12, post_score 0, gain -12, a flag of 1 for each
\* pre-test column and no field for a post-test column; in either
\* configuration a phase answered all correctly scores the length of its
\* column list, 12.
C8_FullPhase ==
    Scoring =>
        \A i \in 1..Len(records) :
            LET rec == records[i] IN
            /\ ( /\ group = "Video"
                 /\ \A c \in Range(VIDEO_PRE_COLS) :
                       c \in df.cols /\ df.rows[i][c] = StrCell(VIDEO_ANSWER_KEY[c])
                 /\ \A c \in Range(VIDEO_POST_COLS) : c \in df.cols => Blank(df.rows[i][c]) )
               => /\ rec["pre_score"] = IntCell(12)
                  /\ rec["post_score"] = IntCell(0)
                  /\ rec["gain"] = IntCell(0 - 12)
                  /\ \A c \in Range(VIDEO_PRE_COLS) : c \in DOMAIN rec /\ rec[c] = IntCell(1)
                  /\ \A c \in Range(VIDEO_POST_COLS) : c \notin DOMAIN rec
            /\ AllCorrect(i, PRE_COLS) => rec["pre_score"] = IntCell(Len(PRE_COLS))
                                          /\ Len(PRE_COLS) = 12
            /\ AllCorrect(i, POST_COLS) => rec["post_score"] = IntCell(Len(POST_COLS))
                                           /\ Len(POST_COLS) = 12
\* the Video export with the pre-test all correct and the post-test cells
\* there but empty
C8_Witness ==
    /\ Scoring
    /\ group = "Video"
    /\ \E i \in 1..Len(records) :
          /\ AllCorrect(i, VIDEO_PRE_COLS)
          /\ \A c \in Range(VIDEO_POST_COLS) : c \in df.cols /\ Blank(df.rows[i][c])
          /\ records[i]["pre_score"] = IntCell(12)
          /\ records[i]["gain"] = IntCell(0 - 12)

\* the steps a run takes, and the start of the next run
StepOrder == { <<"locate", "load">>, <<"locate", "aborted">>,
               <<"load", "detect">>, <<"load", "aborted">>,
               <<"detect", "score">>,
               <<"score", "score">>, <<"score", "done">>, <<"score", "aborted">>,
               <<"done", "locate">>, <<"aborted", "locate">> }

C9_Step ==
    /\ << pc, pc' >> \in StepOrder
    /\ pc' = "aborted" => files' = files
    /\ pc = "score" /\ pc' = "score" => Len(records') = Len(records) + 1 /\ files' = files
    /\ files' # files =>
          /\ pc = "score" /\ pc' = "done"
          /\ Len(records) = Len(df.rows)
          /\ DOMAIN files' = DOMAIN files \cup {"coded_results.csv"}
          /\ \A n \in DOMAIN files : n # "coded_results.csv" => files'[n] = files[n]
          /\ Len(files'["coded_results.csv"].rows) = Len(df.rows)
C9_State ==
    /\ pc = "done" => /\ "coded_results.csv" \in DOMAIN files
                      /\ Len(files["coded_results.csv"].rows) = Len(df.rows)
                      /\ Len(records) = Len(df.rows)
    /\ pc = "aborted" => error # "none"
\* C9: a run goes locate, load, detect, score each row, save, in that
\* order; the folder changes only in the one step that ends the run, after
\* every row has its record, and then only coded_results.csv, which gets
\* one row per table row; a run that aborts changes no file.
C9_OrderAndSingleWrite == [] C9_State /\ [][C9_Step]_vars
\* a table of at least two rows has been coded over an earlier output
C9_Witness == /\ pc = "done"
              /\ Len(df.rows) >= 2
              /\ Len(files["coded_results.csv"].rows) = Len(df.rows)
              /\ files["coded_results.csv"] # OldOutput

\* C10: whichever configuration a run selects, every column of its
\* PRE_COLS and POST_COLS has an entry in its ANSWER_KEY, and no run ends
\* with the key lookup raising KeyError.
C10_KeysComplete ==
    /\ error # "KeyError"
    /\ Scoring => ScoredCols \subseteq DOMAIN ANSWER_KEY
\* the last Video post-test column and the last VR one were looked up
C10_Witness ==
    /\ Scoring
    /\ \E i \in 1..Len(records) :
          VIDEO_POST_COLS[Len(VIDEO_POST_COLS)] \in DOMAIN records[i]
             \/ VR_POST_COLS[Len(VR_POST_COLS)] \in DOMAIN records[i]

====
